---- MODULE Spec2Model ----
(***************************************************************************)
(* Model of the uASPIre FASTQ pipeline of src/src/uaspire/fastq.rs:        *)
(* classify_pair, the Counters, the chunked fork-join driver               *)
(* process_fastq, the merge stage concat_parquet_dir and the partition     *)
(* writers write_partitioned_parquet / save_by_chunks.                     *)
(*                                                                         *)
(* A nucleotide sequence is a tuple of one-character strings.  Offsets     *)
(* are 0-indexed as in the Rust source; Slice(s, a, b) is Rust's s[a..b].  *)
(***************************************************************************)
EXTENDS Integers, Sequences, FiniteSets, TLC

VARIABLES
    file1,        \* records of the first input file (path1)
    file2,        \* records of the second input file (path2)
    root0,        \* content of dirs.parquet when the run starts
    prev,         \* what the run before this one left in the output root,
                  \* if process_fastq has been run on it with these arguments
    sample_name,  \* argument of process_fastq
    chunk_size,   \* argument of process_fastq
    parquet_size, \* argument of process_fastq
    pc,           \* position of the driver thread in process_fastq
    iter1,        \* number of records already pulled from file1
    iter2,        \* number of records already pulled from file2
    i,            \* number of chunks processed (chunk file index)
    n,            \* number of records of file1 in the processed chunks
    chunk1,       \* records of the current chunk, stream 1
    chunk2,       \* records of the current chunk, stream 2
    wpc,          \* position of the closure invocation of each zipped pair
    res,          \* what classify_pair returned to each closure invocation
    counters,     \* the run's Counters
    table,        \* the current chunk's SampleTable
    parquet,      \* files of dirs.parquet: file name -> rows
    qc,           \* files of dirs.qc: sample directory -> QC rows
    countsDir,    \* files of dirs.counts: path -> rows
    merged        \* the DataFrame returned by concat_parquet_dir

vars == <<file1, file2, root0, prev, sample_name, chunk_size, parquet_size, pc,
          iter1, iter2, i, n, chunk1, chunk2, wpc, res, counters, table,
          parquet, qc, countsDir, merged>>

----------------------------------------------------------------------------
(* constants.rs *)

MAX_N_COUNT == 6

BC_ATCACG == <<"A","T","C","A","C","G">>
BC_CGATGT == <<"C","G","A","T","G","T">>
BC_CTTGTA == <<"C","T","T","G","T","A">>
BC_GCCAAT == <<"G","C","C","A","A","T">>
BC_ACAGTG == <<"A","C","A","G","T","G">>
BC_ACTTGA == <<"A","C","T","T","G","A">>

BARCODES_1 == <<BC_ATCACG, BC_CGATGT, BC_CTTGTA, BC_GCCAAT, BC_ACAGTG, BC_ACTTGA>>

BARCODES_2 == <<BC_ATCACG, BC_CGATGT, BC_CTTGTA, BC_GCCAAT, BC_ACAGTG, BC_ACTTGA>>

BARCODE_LEN == 6

CONSTANT_REGION == <<"G","A","G","C","T","C","G","C","A","T">>

CONSTANT_REGION_WINDOW == <<7, 24>>

NON_FLIPPED_SEQ == <<"G","G","G","T","T","T","G","T","A","C","C","G","T","A","C","A","C">>

FLIPPED_SEQ == <<"G","C","C","C","G","G","A","T","G","A","T","C","C","T","G","A","C">>

DISCRIMINATOR_OFFSET == 6

RBS_LEN == 17

(* commands/uaspire.rs: size of the rayon thread pool *)
NumThreads == 10

(* The Config built by process_fastq. *)
Config ==
    [barcodes1    |-> BARCODES_1,
     barcodes2    |-> BARCODES_2,
     const_region |-> CONSTANT_REGION,
     window       |-> CONSTANT_REGION_WINDOW,
     rbs_len      |-> RBS_LEN,
     barcode_len  |-> BARCODE_LEN,
     max_n        |-> MAX_N_COUNT,
     non_flipped  |-> NON_FLIPPED_SEQ,
     flipped      |-> FLIPPED_SEQ,
     disc_offset  |-> DISCRIMINATOR_OFFSET]

----------------------------------------------------------------------------
(* enum FailReason, in declaration order; `r as usize` is FailOrd(r). *)

FailReason ==
    <<"BaseCalls", "ConstantSeq", "ConstantPos", "Barcode1", "Barcode2",
      "DiscSeq", "DiscPos">>

FailReasons == {FailReason[k] : k \in DOMAIN FailReason}

FailOrd(r) == (CHOOSE k \in DOMAIN FailReason : FailReason[k] = r) - 1

----------------------------------------------------------------------------
(* String primitives of the Rust standard library used by classify_pair. *)

None == -1

Min(S) == CHOOSE x \in S : \A y \in S : x <= y

(* A byte that is not part of any valid UTF-8 text. *)
BadByte == "#"

(* std::str::from_utf8(..).is_ok() *)
IsUtf8(seq) == \A k \in DOMAIN seq : seq[k] # BadByte

(* seq.bytes().filter(|&b| b == b'N').count() *)
CountN(seq) == Cardinality({k \in DOMAIN seq : seq[k] = "N"})

(* s[a..b] is defined (does not panic) *)
SliceOk(s, a, b) == 0 <= a /\ a <= b /\ b <= Len(s)

(* s[a..b] *)
Slice(s, a, b) == SubSeq(s, a + 1, b)

(* hay.find(needle): offset of the leftmost occurrence, or None *)
Find(hay, needle) ==
    LET M == {p \in 0..(Len(hay) - Len(needle)) :
                 Slice(hay, p, p + Len(needle)) = needle}
    IN  IF M = {} THEN None ELSE Min(M)

(* arr.contains(&x) *)
Contains(arr, x) == \E k \in DOMAIN arr : arr[k] = x

----------------------------------------------------------------------------
(* Results of classify_pair.  "ok" is Ok(Ok(..)), "fail" is Ok(Err(r)),    *)
(* "utf8" is Err(Utf8Error) and "panic" is a panic raised inside the call  *)
(* (validate_pairs, or a slice index out of range).                        *)

NoSample == [barcode1 |-> <<>>, barcode2 |-> <<>>]

Success(b1, b2, rbs, flip) ==
    [kind |-> "ok", reason |-> "", sample |-> [barcode1 |-> b1, barcode2 |-> b2],
     rbs |-> rbs, flip |-> flip]

Failure(r) ==
    [kind |-> "fail", reason |-> r, sample |-> NoSample, rbs |-> <<>>, flip |-> ""]

Utf8Error ==
    [kind |-> "utf8", reason |-> "", sample |-> NoSample, rbs |-> <<>>, flip |-> ""]

Panic ==
    [kind |-> "panic", reason |-> "", sample |-> NoSample, rbs |-> <<>>, flip |-> ""]

(* the closure invocation has not called classify_pair yet *)
NoResult ==
    [kind |-> "none", reason |-> "", sample |-> NoSample, rbs |-> <<>>, flip |-> ""]

(* validate_pairs that never compares the identifiers *)
validate_pairs_Always(rec1, rec2) == TRUE

(* validate_pairs: TRUE iff it returns (it panics otherwise) *)
validate_pairs(rec1, rec2) == rec1.id = rec2.id

(* the ambiguous-base test with >= for > *)
too_many_n_AtLeast(cfg, seq1, seq2) == CountN(seq1) + CountN(seq2) >= cfg.max_n

(* Step 1: the ambiguous-base test *)
too_many_n(cfg, seq1, seq2) == CountN(seq1) + CountN(seq2) > cfg.max_n

(* Step 2: the window &seq2[win_lo - 1..win_hi] can be taken *)
window_ok(cfg, seq2) == SliceOk(seq2, cfg.window[1] - 1, cfg.window[2])

(* Step 2: absolute offset of the anchor found in the window, or None *)
find_const(cfg, seq2) ==
    LET win_lo == cfg.window[1]
        win_hi == cfg.window[2]
        window == Slice(seq2, win_lo - 1, win_hi)
        local == Find(window, cfg.const_region)
    IN  IF local = None THEN None ELSE local + win_lo - 1

(* the anchor position test with <= for < *)
bad_const_pos_Inclusive(cfg, seq2, const_offset) ==
    \/ const_offset <= cfg.barcode_len
    \/ const_offset + cfg.barcode_len + cfg.rbs_len > Len(seq2)

(* Step 3: the anchor position test *)
bad_const_pos(cfg, seq2, const_offset) ==
    \/ const_offset < cfg.barcode_len
    \/ const_offset + cfg.barcode_len + cfg.rbs_len > Len(seq2)

(* find_disc with the flipped motif taking precedence *)
find_disc_FlippedFirst(cfg, seq1) ==
    LET nf == Find(seq1, cfg.non_flipped)
        fl == Find(seq1, cfg.flipped)
    IN  IF fl # None THEN [pos |-> fl, flip |-> "Flipped"]
        ELSE IF nf # None THEN [pos |-> nf, flip |-> "NonFlipped"]
        ELSE [pos |-> None, flip |-> ""]

(* Step 6: (disc_pos, flipped) of the match on the two searches, or None *)
find_disc(cfg, seq1) ==
    LET nf == Find(seq1, cfg.non_flipped)
        fl == Find(seq1, cfg.flipped)
    IN  IF nf # None THEN [pos |-> nf, flip |-> "NonFlipped"]
        ELSE IF fl # None THEN [pos |-> fl, flip |-> "Flipped"]
        ELSE [pos |-> None, flip |-> ""]

(* the discriminator position test with <= for < *)
bad_disc_pos_Inclusive(cfg, disc_pos) == disc_pos <= cfg.disc_offset + cfg.barcode_len

(* Step 6: the discriminator position test *)
bad_disc_pos(cfg, disc_pos) == disc_pos < cfg.disc_offset + cfg.barcode_len

(* classify_disc taking barcode 1 right before the discriminator *)
classify_disc_NoOffset(cfg, seq1, barcode2, rbs) ==
    LET disc == find_disc(cfg, seq1)
        disc_pos == disc.pos
    IN  IF disc_pos = None THEN Failure("DiscSeq")
        ELSE IF bad_disc_pos(cfg, disc_pos) THEN Failure("DiscPos")
        ELSE LET barcode1_start == disc_pos - cfg.barcode_len
             IN  IF ~SliceOk(seq1, barcode1_start, barcode1_start + cfg.barcode_len)
                 THEN Panic
                 ELSE LET barcode1 == Slice(seq1, barcode1_start,
                                            barcode1_start + cfg.barcode_len)
                      IN  IF ~Contains(cfg.barcodes1, barcode1)
                          THEN Failure("Barcode1")
                          ELSE Success(barcode1, barcode2, rbs, disc.flip)

(* Steps 6 and 7 of classify_pair, given the barcode 2 and the RBS. *)
classify_disc(cfg, seq1, barcode2, rbs) ==
    LET disc == find_disc(cfg, seq1)
        disc_pos == disc.pos
    IN  IF disc_pos = None THEN Failure("DiscSeq")
        ELSE IF bad_disc_pos(cfg, disc_pos) THEN Failure("DiscPos")
        ELSE LET barcode1_start == disc_pos - cfg.disc_offset - cfg.barcode_len
             IN  IF ~SliceOk(seq1, barcode1_start, barcode1_start + cfg.barcode_len)
                 THEN Panic
                 ELSE LET barcode1 == Slice(seq1, barcode1_start,
                                            barcode1_start + cfg.barcode_len)
                      IN  IF ~Contains(cfg.barcodes1, barcode1)
                          THEN Failure("Barcode1")
                          ELSE Success(barcode1, barcode2, rbs, disc.flip)

(* classify_anchor taking the RBS barcode_len after the anchor offset *)
classify_anchor_RbsAtBarcodeLen(cfg, seq1, seq2, const_offset) ==
    IF bad_const_pos(cfg, seq2, const_offset) THEN Failure("ConstantPos")
    ELSE LET rbs_start == const_offset + cfg.barcode_len
         IN  IF ~SliceOk(seq2, rbs_start, rbs_start + cfg.rbs_len)
             THEN Panic
             ELSE LET rbs == Slice(seq2, rbs_start, rbs_start + cfg.rbs_len)
                      barcode2 == Slice(seq2, const_offset - cfg.barcode_len,
                                        const_offset)
                  IN  IF ~Contains(cfg.barcodes2, barcode2)
                      THEN Failure("Barcode2")
                      ELSE classify_disc(cfg, seq1, barcode2, rbs)

(* Steps 3 to 5 of classify_pair, given the anchor offset. *)
classify_anchor(cfg, seq1, seq2, const_offset) ==
    IF bad_const_pos(cfg, seq2, const_offset) THEN Failure("ConstantPos")
    ELSE LET rbs_start == const_offset + Len(cfg.const_region)
         IN  IF ~SliceOk(seq2, rbs_start, rbs_start + cfg.rbs_len)
             THEN Panic
             ELSE LET rbs == Slice(seq2, rbs_start, rbs_start + cfg.rbs_len)
                      barcode2 == Slice(seq2, const_offset - cfg.barcode_len,
                                        const_offset)
                  IN  IF ~Contains(cfg.barcodes2, barcode2)
                      THEN Failure("Barcode2")
                      ELSE classify_disc(cfg, seq1, barcode2, rbs)

classify_pair(cfg, rec1, rec2) ==
    LET seq1 == rec1.seq
        seq2 == rec2.seq
    IN  IF ~validate_pairs(rec1, rec2) THEN Panic
        ELSE IF ~IsUtf8(seq1) \/ ~IsUtf8(seq2) THEN Utf8Error
        ELSE IF too_many_n(cfg, seq1, seq2) THEN Failure("BaseCalls")
        ELSE IF ~window_ok(cfg, seq2) THEN Panic
        ELSE LET const_offset == find_const(cfg, seq2)
             IN  IF const_offset = None THEN Failure("ConstantSeq")
                 ELSE classify_anchor(cfg, seq1, seq2, const_offset)

----------------------------------------------------------------------------
(* Tables.  A DataFrame is a sequence of rows; a directory is a function   *)
(* from file names to file contents.                                       *)

(* Put that appends to a file that exists *)
Put_Append(f, k, v) ==
    [x \in (DOMAIN f) \cup {k} |->
        IF x = k THEN (IF k \in DOMAIN f THEN f[k] \o v ELSE v) ELSE f[x]]

Put(f, k, v) == [x \in (DOMAIN f) \cup {k} |-> IF x = k THEN v ELSE f[x]]

EmptyDir == [x \in {} |-> <<>>]

Row(b1, b2, gre, unflipped, flipped) ==
    [barcode1 |-> b1, barcode2 |-> b2, gre |-> gre,
     unflipped |-> unflipped, flipped |-> flipped]

RowKey(r) == <<r.barcode1, r.barcode2, r.gre>>

Range(s) == {s[k] : k \in DOMAIN s}

(* All orders in which the elements of the finite set S can be listed. *)
Orderings(S) ==
    {s \in [1..Cardinality(S) -> S] : \A x \in S : \E k \in DOMAIN s : s[k] = x}

RECURSIVE Digits(_)
(* decimal digits of v, most significant first *)
Digits(v) == IF v < 10 THEN <<v>> ELSE Digits(v \div 10) \o <<v % 10>>

(* format!("{v:0width$}") *)
ZeroPad(v, width) ==
    LET d == Digits(v)
    IN  IF Len(d) >= width THEN d ELSE [k \in 1..(width - Len(d)) |-> 0] \o d

(* Ordering of two strings of digits as Rust orders the paths: bytewise. *)
LexLess(a, b) ==
    \/ \E k \in 1..Min({Len(a), Len(b)}) :
           /\ a[k] < b[k]
           /\ \A j \in 1..(k - 1) : a[j] = b[j]
    \/ /\ Len(a) < Len(b)
       /\ \A j \in 1..Len(a) : a[j] = b[j]

RECURSIVE SortNames(_)
(* files.sort() *)
SortNames(S) ==
    IF S = {} THEN <<>>
    ELSE LET m == CHOOSE x \in S : \A y \in S \ {x} : LexLess(x, y)
         IN  <<m>> \o SortNames(S \ {m})

(* format!("chunk_{i:09}.parquet"), the digits of the name *)
ChunkName(idx) == ZeroPad(idx, 9)

----------------------------------------------------------------------------
(* Counters *)

Counters0 == [total |-> 0, valid |-> 0, fails |-> [k \in 0..(Len(FailReason) - 1) |-> 0]]

(* inc_total with the increment lost *)
inc_total_Lost(c) == c

inc_total(c) == [c EXCEPT !.total = @ + 1]

inc_valid(c) == [c EXCEPT !.valid = @ + 1]

(* inc_fail with the increment lost *)
inc_fail_Lost(c, r) == c

inc_fail(c, r) == [c EXCEPT !.fails[FailOrd(r)] = @ + 1]

(* to_dataframe with the slots of Barcode1 and Barcode2 exchanged *)
to_dataframe_Swapped(c) ==
    << <<"total", c.total>>,
       <<"valid", c.valid>>,
       <<"base_calls", c.fails[FailOrd("BaseCalls")]>>,
       <<"constant_seq", c.fails[FailOrd("ConstantSeq")]>>,
       <<"constant_pos", c.fails[FailOrd("ConstantPos")]>>,
       <<"barcode_1", c.fails[FailOrd("Barcode2")]>>,
       <<"barcode_2", c.fails[FailOrd("Barcode1")]>>,
       <<"disc_seq", c.fails[FailOrd("DiscSeq")]>>,
       <<"disc_pos", c.fails[FailOrd("DiscPos")]>> >>

(* Counters::to_dataframe: the rows (name, value) of the QC table *)
to_dataframe(c) ==
    << <<"total", c.total>>,
       <<"valid", c.valid>>,
       <<"base_calls", c.fails[FailOrd("BaseCalls")]>>,
       <<"constant_seq", c.fails[FailOrd("ConstantSeq")]>>,
       <<"constant_pos", c.fails[FailOrd("ConstantPos")]>>,
       <<"barcode_1", c.fails[FailOrd("Barcode1")]>>,
       <<"barcode_2", c.fails[FailOrd("Barcode2")]>>,
       <<"disc_seq", c.fails[FailOrd("DiscSeq")]>>,
       <<"disc_pos", c.fails[FailOrd("DiscPos")]>> >>

RECURSIVE SumFails(_, _)
SumFails(c, k) == IF k < 0 THEN 0 ELSE c.fails[k] + SumFails(c, k - 1)

(* sum of the seven failure counters *)
FailTotal(c) == SumFails(c, Len(FailReason) - 1)

----------------------------------------------------------------------------
(* SampleTable: Sample -> (rbs -> <<unflipped, flipped>>) *)

EmptyTable == [x \in {} |-> <<>>]

NewCell == <<0, 0>>

(* entry_sample that inserts a new inner map over an existing one *)
entry_sample_Overwrite(t, sample) == Put(t, sample, EmptyTable)

(* table.entry(sample).or_insert_with(DashMap::new) *)
entry_sample(t, sample) ==
    IF sample \in DOMAIN t THEN t ELSE Put(t, sample, EmptyTable)

(* inner.entry(rbs).or_insert_with(Default::default) *)
entry_rbs(t, sample, rbs) ==
    IF rbs \in DOMAIN t[sample] THEN t
    ELSE [t EXCEPT ![sample] = Put(@, rbs, NewCell)]

(* index of the slot of an orientation in the cell, counted from 1 *)
FlipIdx(flip) == IF flip = "NonFlipped" THEN 1 ELSE 2

(* cell_add that stores 1 instead of adding 1 *)
cell_add_Store(t, sample, rbs, flip) ==
    [t EXCEPT ![sample][rbs][FlipIdx(flip)] = 1]

(* cell[idx].fetch_add(1) *)
cell_add(t, sample, rbs, flip) ==
    [t EXCEPT ![sample][rbs][FlipIdx(flip)] = @ + 1]

(* The rows of the table: one per (sample, rbs) cell. *)
CellRows(t) ==
    UNION {{Row(s.barcode1, s.barcode2, g, t[s][g][1], t[s][g][2]) :
               g \in DOMAIN t[s]} : s \in DOMAIN t}

(* table_to_dataframe: the iteration order of a DashMap is not specified; *)
(* the rows of one sample are consecutive (flat_map over the samples).    *)
table_to_dataframe(t) ==
    {df \in Orderings(CellRows(t)) :
        \A a, b, c \in DOMAIN df :
            (a < b /\ b < c /\ df[a].barcode1 = df[c].barcode1
                            /\ df[a].barcode2 = df[c].barcode2)
            => (df[b].barcode1 = df[a].barcode1 /\ df[b].barcode2 = df[a].barcode2)}

----------------------------------------------------------------------------
(* Merge stage *)

(* Concat reading only the first file of the list *)
Concat_FirstOnly(dir, names) ==
    IF names = <<>> THEN <<>> ELSE dir[Head(names)]

RECURSIVE Concat(_, _)
(* the rows of the files of dir, in the order of the list names *)
Concat(dir, names) ==
    IF names = <<>> THEN <<>>
    ELSE dir[Head(names)] \o Concat(dir, Tail(names))

RECURSIVE GroupBySum_KeepFirst(_)
(* GroupBySum keeping the first row of each key instead of the sums *)
GroupBySum_KeepFirst(rows) ==
    IF rows = <<>> THEN <<>>
    ELSE LET front == GroupBySum_KeepFirst(SubSeq(rows, 1, Len(rows) - 1))
             r == rows[Len(rows)]
         IN  IF \E k \in DOMAIN front : RowKey(front[k]) = RowKey(r)
             THEN front ELSE Append(front, r)

RECURSIVE GroupBySum(_)
(* group_by_stable([barcode1, barcode2, gre]).agg([sum, sum]) *)
GroupBySum(rows) ==
    IF rows = <<>> THEN <<>>
    ELSE LET front == GroupBySum(SubSeq(rows, 1, Len(rows) - 1))
             r == rows[Len(rows)]
             hit == {k \in DOMAIN front : RowKey(front[k]) = RowKey(r)}
         IN  IF hit = {} THEN Append(front, r)
             ELSE [k \in DOMAIN front |->
                     IF k \in hit
                     THEN [front[k] EXCEPT !.unflipped = @ + r.unflipped,
                                           !.flipped = @ + r.flipped]
                     ELSE front[k]]

(* list_parquet_files *)
list_parquet_files(dir) == SortNames(DOMAIN dir)

(* concat_parquet_dir panics when the directory has no parquet file *)
concat_panics(dir) == list_parquet_files(dir) = <<>>

concat_parquet_dir(dir) == GroupBySum(Concat(dir, list_parquet_files(dir)))

----------------------------------------------------------------------------
(* Partition stage *)

(* save_by_chunks with the number of files rounded down *)
save_by_chunks_Floor(df, size) ==
    LET n_rows == Len(df)
        n_chunks == n_rows \div size
        n_digits == Len(Digits(n_chunks))
    IN  [k \in 1..n_chunks |->
            LET start == (k - 1) * size
                len == Min({size, n_rows - start})
            IN  [name |-> ZeroPad(k - 1, n_digits),
                 rows |-> Slice(df, start, start + len)]]

(* save_by_chunks: the files written, in the order of the loop *)
save_by_chunks(df, size) ==
    LET n_rows == Len(df)
        n_chunks == (n_rows + size - 1) \div size
        n_digits == Len(Digits(n_chunks))
    IN  [k \in 1..n_chunks |->
            LET start == (k - 1) * size
                len == Min({size, n_rows - start})
            IN  [name |-> ZeroPad(k - 1, n_digits),
                 rows |-> Slice(df, start, start + len)]]

(* the filter on barcode1 alone *)
FilterPair_Barcode1(df, b1, b2) == SelectSeq(df, LAMBDA r : r.barcode1 = b1)

(* df.filter(barcode1 == b1 && barcode2 == b2) *)
FilterPair(df, b1, b2) ==
    SelectSeq(df, LAMBDA r : r.barcode1 = b1 /\ r.barcode2 = b2)

(* write_partitioned_parquet: the directory dirs.counts after the call *)
write_partitioned_parquet(df, dir, sample, size) ==
    LET barcode1s == {df[k].barcode1 : k \in DOMAIN df}
        barcode2s == {df[k].barcode2 : k \in DOMAIN df}
        pairs == {bp \in barcode1s \X barcode2s :
                     Len(FilterPair(df, bp[1], bp[2])) # 0}
        files == UNION {{[path |-> <<sample, bp[1], bp[2], f.name>>,
                          rows |-> f.rows] :
                            f \in Range(save_by_chunks(FilterPair(df, bp[1], bp[2]), size))} :
                        bp \in pairs}
        paths == {f.path : f \in files}
    IN  [p \in (DOMAIN dir) \cup paths |->
            IF p \in paths THEN (CHOOSE f \in files : f.path = p).rows
            ELSE dir[p]]

(* write_qc_parquet: the directory dirs.qc after the call *)
write_qc_parquet(df, dir, sample) == Put(dir, sample, df)

----------------------------------------------------------------------------
(* Inputs *)

MaxLen == 2

MaxChunkSize == 2

MaxParquetSize == 2

Rep(c, k) == [j \in 1..k |-> c]

Rec(id, seq) == [id |-> id, seq |-> seq]

RBS_A == <<"A","C","G","T","A","C","G","T","A","C","G","T","A","C","G","T","A">>

RBS_B == <<"T","T","G","C","A","T","T","G","C","A","T","T","G","C","A","T","T">>

(* the anchor motif with its last base changed *)
NoAnchor == <<"G","A","G","C","T","C","G","C","A","A">>

(* read 1: barcode, DISCRIMINATOR_OFFSET bases, discriminator, two bases *)
Seq1Ok(bc, disc) == bc \o Rep("T", DISCRIMINATOR_OFFSET) \o disc \o <<"A","C">>

(* read 2: barcode, anchor motif at offset BARCODE_LEN, RBS, one base *)
Seq2Ok(bc, rbs) == bc \o CONSTANT_REGION \o rbs \o <<"T">>

PairOk == <<Rec("a", Seq1Ok(BC_ATCACG, NON_FLIPPED_SEQ)), Rec("a", Seq2Ok(BC_ATCACG, RBS_A))>>

PairFlipped == <<Rec("a", Seq1Ok(BC_ATCACG, FLIPPED_SEQ)), Rec("a", Seq2Ok(BC_ATCACG, RBS_A))>>

PairOtherRbs == <<Rec("a", Seq1Ok(BC_ATCACG, NON_FLIPPED_SEQ)), Rec("a", Seq2Ok(BC_ATCACG, RBS_B))>>

PairOtherSample == <<Rec("a", Seq1Ok(BC_CGATGT, NON_FLIPPED_SEQ)), Rec("a", Seq2Ok(BC_ATCACG, RBS_A))>>

PairNoAnchor == <<Rec("a", Seq1Ok(BC_ATCACG, NON_FLIPPED_SEQ)), Rec("a", BC_ATCACG \o NoAnchor \o RBS_A)>>

PairIdMismatch == <<Rec("a", Seq1Ok(BC_ATCACG, NON_FLIPPED_SEQ)), Rec("b", Seq2Ok(BC_ATCACG, RBS_A))>>

PairShort == <<Rec("a", Seq1Ok(BC_ATCACG, NON_FLIPPED_SEQ)), Rec("a", BC_ATCACG \o CONSTANT_REGION)>>

(* read pairs of the runs *)
RunPool ==
    {PairOk, PairFlipped, PairOtherRbs, PairOtherSample, PairNoAnchor,
     PairIdMismatch, PairShort}

(* all sequences over S of length at most k *)
SeqsUpTo(S, k) == UNION {[1..m -> S] : m \in 0..k}

(* chunk files left in dirs.parquet by an earlier run of three chunks *)
StaleDir ==
    [nm \in {ChunkName(1), ChunkName(2), ChunkName(3)} |->
        <<Row(BC_ATCACG, BC_ATCACG, RBS_A, 1, 0)>>]

SampleNames == {"s1"}

InitRun(pairs, extra1, extra2, dir, name, cs, ps) ==
    /\ file1 = [k \in DOMAIN pairs |-> pairs[k][1]] \o extra1
    /\ file2 = [k \in DOMAIN pairs |-> pairs[k][2]] \o extra2
    /\ root0 = dir
    /\ prev = <<>>
    /\ sample_name = name
    /\ chunk_size = cs
    /\ parquet_size = ps
    /\ pc = "pull"
    /\ iter1 = 0
    /\ iter2 = 0
    /\ i = 0
    /\ n = 0
    /\ chunk1 = <<>>
    /\ chunk2 = <<>>
    /\ wpc = <<>>
    /\ res = <<>>
    /\ counters = Counters0
    /\ table = EmptyTable
    /\ parquet = dir
    /\ qc = EmptyDir
    /\ countsDir = EmptyDir
    /\ merged = <<>>

(* one file may hold one record more than the other *)
Surplus == {<<<<>>, <<>>>>, <<<<PairOk[1]>>, <<>>>>, <<<<>>, <<PairOk[2]>>>>}

(* The surplus record, the output root and the partition size of a run:  *)
(* files of equal length on a fresh or a used root with every partition  *)
(* size, and files of unequal length on a fresh root.                    *)
RunShapes ==
    {<<<<<<>>, <<>>>>, dir, ps>> :
        dir \in {EmptyDir, StaleDir}, ps \in 1..MaxParquetSize}
    \cup {<<extra, EmptyDir, 1>> : extra \in Surplus}

Init ==
    \E pairs \in SeqsUpTo(RunPool, MaxLen), shape \in RunShapes,
       name \in SampleNames, cs \in 1..MaxChunkSize :
        InitRun(pairs, shape[1][1], shape[1][2], shape[2], name, cs, shape[3])

(* Reads for the classifier: read 1 is a prefix, a discriminator and a   *)
(* tail; read 2 is a prefix, the anchor motif or a near miss, and a tail. *)
Seq1Pool ==
    {Seq1Ok(BC_ATCACG, NON_FLIPPED_SEQ),
     Seq1Ok(BC_CGATGT, NON_FLIPPED_SEQ),
     Seq1Ok(BC_ATCACG, FLIPPED_SEQ),
     BC_ATCACG \o <<"A","A">> \o NON_FLIPPED_SEQ \o <<"A","C">>,
     BC_ATCACG \o Rep("T", 5) \o NON_FLIPPED_SEQ,
     <<"T">> \o BC_ATCACG \o Rep("T", 6) \o NON_FLIPPED_SEQ,
     Rep("T", 12) \o NON_FLIPPED_SEQ,
     Rep("T", 8) \o FLIPPED_SEQ,
     BC_ATCACG \o Rep("T", 6) \o Rep("T", 17),
     FLIPPED_SEQ \o BC_ACTTGA \o Rep("T", 6) \o NON_FLIPPED_SEQ,
     Seq1Ok(BC_ATCACG, NON_FLIPPED_SEQ) \o Rep("N", 3),
     Rep("N", 7),
     Seq1Ok(BC_ATCACG, NON_FLIPPED_SEQ) \o <<BadByte>>}

Pre2 ==
    {<<>>, Rep("T", 5), BC_ATCACG, Rep("T", 6), Rep("T", 2) \o BC_CGATGT,
     Rep("T", 8) \o BC_ATCACG, Rep("T", 9) \o BC_ATCACG,
     Rep("N", 3) \o BC_ATCACG, CONSTANT_REGION}

Mid2 == {CONSTANT_REGION, NoAnchor}

Post2 ==
    {<<>>, Rep("T", 12), Rep("T", 13), Rep("T", 16), RBS_A, RBS_B,
     <<"N","N","N">> \o Rep("C", 14), <<"N","N","N","N">> \o Rep("C", 13),
     RBS_A \o Rep("T", 9)}

Seq2Pool == {pre \o mid \o post : pre \in Pre2, mid \in Mid2, post \in Post2}

(* One run per read pair: a single pair, chunks of one, a fresh root. *)
InitClassify ==
    \E s1 \in Seq1Pool, s2 \in Seq2Pool, id2 \in {"a", "b"} :
        InitRun(<< <<Rec("a", s1), Rec(id2, s2)>> >>, <<>>, <<>>, EmptyDir,
                "s1", 1, 1)

MaxRows == 19

(* the k-th of a family of pairwise different RBS sequences *)
Gre(k) ==
    Rep("A", k % (RBS_LEN + 1))
    \o Rep(IF k <= RBS_LEN THEN "C" ELSE "G", RBS_LEN - (k % (RBS_LEN + 1)))

(* a table of m rows of different keys, dealt in turn to the samples *)
PartTable(m, samples) ==
    [k \in 1..m |->
        LET s == samples[((k - 1) % Len(samples)) + 1]
        IN  Row(s[1], s[2], Gre(k), k, 0)]

(* a chunk file left in dirs.parquet by an earlier run *)
PartDir(m, samples) == [nm \in {ChunkName(7)} |-> PartTable(m, samples)]

(* the samples of the earlier run: one, or two that share no barcode *)
PartSamples ==
    {<< <<BC_ATCACG, BC_ATCACG>> >>,
     << <<BC_ATCACG, BC_ATCACG>>, <<BC_CGATGT, BC_CGATGT>> >>}

(* Runs for the partition stage: at most one pair on a root that holds a *)
(* chunk file of up to MaxRows rows.                                      *)
InitPartition ==
    \E pairs \in SeqsUpTo({PairOk, PairShort}, 1), m \in 1..MaxRows,
       samples \in PartSamples, ps \in 1..MaxParquetSize :
        InitRun(pairs, <<>>, <<>>, PartDir(m, samples), "s1", 1, ps)

----------------------------------------------------------------------------
(* process_fastq *)

(* iter.by_ref().take(k).collect() from position pos *)
Take(file, pos, k) == SubSeq(file, pos + 1, Min({pos + k, Len(file)}))

(* closure invocations that have started and not yet returned or panicked *)
InFlight == {k \in DOMAIN wpc : wpc[k] \in {"classify", "outer", "inner", "cell"}}

(* the literal passed as the sample of the QC file *)
QcSample == "sample_name"

(* Pull that does not wait for the workers of the chunk in progress *)
Pull_Eager ==
    /\ pc \in {"pull", "par"}
    /\ LET c1 == Take(file1, iter1, chunk_size)
           c2 == Take(file2, iter2, chunk_size)
           zipped == 1..Min({Len(c1), Len(c2)})
       IN  /\ chunk1' = c1
           /\ chunk2' = c2
           /\ iter1' = iter1 + Len(c1)
           /\ iter2' = iter2 + Len(c2)
           /\ IF c1 = <<>> \/ c2 = <<>>
              THEN /\ pc' = "qc"
                   /\ UNCHANGED <<table, wpc, res>>
              ELSE /\ pc' = "par"
                   /\ table' = EmptyTable
                   /\ wpc' = [k \in zipped |-> "ready"]
                   /\ res' = [k \in zipped |-> NoResult]
    /\ UNCHANGED <<file1, file2, root0, prev, sample_name, chunk_size, parquet_size,
                   i, n, counters, parquet, qc, countsDir, merged>>

(* Top of the loop: pull the two chunks, break or fork the workers. *)
Pull ==
    /\ pc = "pull"
    /\ LET c1 == Take(file1, iter1, chunk_size)
           c2 == Take(file2, iter2, chunk_size)
           zipped == 1..Min({Len(c1), Len(c2)})
       IN  /\ chunk1' = c1
           /\ chunk2' = c2
           /\ iter1' = iter1 + Len(c1)
           /\ iter2' = iter2 + Len(c2)
           /\ IF c1 = <<>> \/ c2 = <<>>
              THEN /\ pc' = "qc"
                   /\ UNCHANGED <<table, wpc, res>>
              ELSE /\ pc' = "par"
                   /\ table' = EmptyTable
                   /\ wpc' = [k \in zipped |-> "ready"]
                   /\ res' = [k \in zipped |-> NoResult]
    /\ UNCHANGED <<file1, file2, root0, prev, sample_name, chunk_size, parquet_size,
                   i, n, counters, parquet, qc, countsDir, merged>>

(* A worker takes pair k and runs counters.inc_total(). *)
Start(k) ==
    /\ pc = "par"
    /\ wpc[k] = "ready"
    /\ Cardinality(InFlight) < NumThreads
    /\ counters' = inc_total(counters)
    /\ wpc' = [wpc EXCEPT ![k] = "classify"]
    /\ UNCHANGED <<file1, file2, root0, prev, sample_name, chunk_size, parquet_size,
                   pc, iter1, iter2, i, n, chunk1, chunk2, res, table,
                   parquet, qc, countsDir, merged>>

(* classify_pair and the counter of its outcome. *)
Classify(k) ==
    /\ pc = "par"
    /\ wpc[k] = "classify"
    /\ \E r \in {classify_pair(Config, chunk1[k], chunk2[k])} :
           /\ res' = [res EXCEPT ![k] = r]
           /\ counters' = CASE r.kind = "ok" -> inc_valid(counters)
                            [] r.kind = "fail" -> inc_fail(counters, r.reason)
                            [] OTHER -> counters
           /\ wpc' = [wpc EXCEPT ![k] = CASE r.kind = "ok" -> "outer"
                                           [] r.kind = "fail" -> "done"
                                           [] OTHER -> "panicked"]
    /\ UNCHANGED <<file1, file2, root0, prev, sample_name, chunk_size, parquet_size,
                   pc, iter1, iter2, i, n, chunk1, chunk2, table,
                   parquet, qc, countsDir, merged>>

(* table.entry(sample).or_insert_with(..): waits while another worker     *)
(* holds the entry of the same sample.                                    *)
OuterEntry(k) ==
    /\ pc = "par"
    /\ wpc[k] = "outer"
    /\ \A w \in DOMAIN wpc :
          wpc[w] \in {"inner", "cell"} => res[w].sample # res[k].sample
    /\ table' = entry_sample(table, res[k].sample)
    /\ wpc' = [wpc EXCEPT ![k] = "inner"]
    /\ UNCHANGED <<file1, file2, root0, prev, sample_name, chunk_size, parquet_size,
                   pc, iter1, iter2, i, n, chunk1, chunk2, res, counters,
                   parquet, qc, countsDir, merged>>

(* InnerEntry that takes the entry of the sample in the outer map again,  *)
(* which the worker itself holds                                          *)
InnerEntry_Reentrant(k) ==
    /\ pc = "par"
    /\ wpc[k] = "inner"
    /\ \A w \in DOMAIN wpc :
          wpc[w] \in {"inner", "cell"} => res[w].sample # res[k].sample
    /\ table' = entry_rbs(table, res[k].sample, res[k].rbs)
    /\ wpc' = [wpc EXCEPT ![k] = "cell"]
    /\ UNCHANGED <<file1, file2, root0, prev, sample_name, chunk_size, parquet_size,
                   pc, iter1, iter2, i, n, chunk1, chunk2, res, counters,
                   parquet, qc, countsDir, merged>>

(* inner.entry(rbs).or_insert_with(..) *)
InnerEntry(k) ==
    /\ pc = "par"
    /\ wpc[k] = "inner"
    /\ table' = entry_rbs(table, res[k].sample, res[k].rbs)
    /\ wpc' = [wpc EXCEPT ![k] = "cell"]
    /\ UNCHANGED <<file1, file2, root0, prev, sample_name, chunk_size, parquet_size,
                   pc, iter1, iter2, i, n, chunk1, chunk2, res, counters,
                   parquet, qc, countsDir, merged>>

(* cell[idx].fetch_add(1); both entries are released at the end of the arm *)
CellAdd(k) ==
    /\ pc = "par"
    /\ wpc[k] = "cell"
    /\ table' = cell_add(table, res[k].sample, res[k].rbs, res[k].flip)
    /\ wpc' = [wpc EXCEPT ![k] = "done"]
    /\ UNCHANGED <<file1, file2, root0, prev, sample_name, chunk_size, parquet_size,
                   pc, iter1, iter2, i, n, chunk1, chunk2, res, counters,
                   parquet, qc, countsDir, merged>>

(* A panic of a worker is resumed on the driver thread once no worker is  *)
(* running; pairs not yet taken may be left unprocessed.                  *)
PropagatePanic ==
    /\ pc = "par"
    /\ \E k \in DOMAIN wpc : wpc[k] = "panicked"
    /\ InFlight = {}
    /\ pc' = "panicked"
    /\ UNCHANGED <<file1, file2, root0, prev, sample_name, chunk_size, parquet_size,
                   iter1, iter2, i, n, chunk1, chunk2, wpc, res, counters,
                   table, parquet, qc, countsDir, merged>>

(* ExportChunk that snapshots the table once one worker has finished *)
ExportChunk_NoJoin ==
    /\ pc = "par"
    /\ \E k \in DOMAIN wpc : wpc[k] = "done"
    /\ n' = n + Len(chunk1)
    /\ i' = i + 1
    /\ \E df \in table_to_dataframe(table) :
          parquet' = Put(parquet, ChunkName(i + 1), df)
    /\ pc' = "pull"
    /\ table' = EmptyTable
    /\ chunk1' = <<>>
    /\ chunk2' = <<>>
    /\ wpc' = <<>>
    /\ res' = <<>>
    /\ UNCHANGED <<file1, file2, root0, prev, sample_name, chunk_size, parquet_size,
                   iter1, iter2, counters, qc, countsDir, merged>>

(* for_each has returned: count the chunk and export its table. *)
ExportChunk ==
    /\ pc = "par"
    /\ \A k \in DOMAIN wpc : wpc[k] = "done"
    /\ n' = n + Len(chunk1)
    /\ i' = i + 1
    /\ \E df \in table_to_dataframe(table) :
          parquet' = Put(parquet, ChunkName(i + 1), df)
    /\ pc' = "pull"
    /\ table' = EmptyTable
    /\ chunk1' = <<>>
    /\ chunk2' = <<>>
    /\ wpc' = <<>>
    /\ res' = <<>>
    /\ UNCHANGED <<file1, file2, root0, prev, sample_name, chunk_size, parquet_size,
                   iter1, iter2, counters, qc, countsDir, merged>>

(* counters.to_dataframe() and write_qc_parquet *)
WriteQc ==
    /\ pc = "qc"
    /\ qc' = write_qc_parquet(to_dataframe(counters), qc, QcSample)
    /\ pc' = "merge"
    /\ UNCHANGED <<file1, file2, root0, prev, sample_name, chunk_size, parquet_size,
                   iter1, iter2, i, n, chunk1, chunk2, wpc, res, counters,
                   table, parquet, countsDir, merged>>

(* concat_parquet_dir(&dirs.parquet) *)
Merge ==
    /\ pc = "merge"
    /\ IF concat_panics(parquet)
       THEN pc' = "panicked" /\ UNCHANGED merged
       ELSE pc' = "partition" /\ merged' = concat_parquet_dir(parquet)
    /\ UNCHANGED <<file1, file2, root0, prev, sample_name, chunk_size, parquet_size,
                   iter1, iter2, i, n, chunk1, chunk2, wpc, res, counters,
                   table, parquet, qc, countsDir>>

(* write_partitioned_parquet(&counts, &dirs.counts, sample_name, ..) *)
WritePartitioned ==
    /\ pc = "partition"
    /\ countsDir' = write_partitioned_parquet(merged, countsDir, sample_name,
                                              parquet_size)
    /\ pc' = "done"
    /\ UNCHANGED <<file1, file2, root0, prev, sample_name, chunk_size, parquet_size,
                   iter1, iter2, i, n, chunk1, chunk2, wpc, res, counters,
                   table, parquet, qc, merged>>

Next ==
    \/ Pull
    \/ \E k \in DOMAIN wpc : Start(k)
    \/ \E k \in DOMAIN wpc : Classify(k)
    \/ \E k \in DOMAIN wpc : OuterEntry(k)
    \/ \E k \in DOMAIN wpc : InnerEntry(k)
    \/ \E k \in DOMAIN wpc : CellAdd(k)
    \/ PropagatePanic
    \/ ExportChunk
    \/ WriteQc
    \/ Merge
    \/ WritePartitioned

Spec == Init /\ [][Next]_vars

SpecClassify == InitClassify /\ [][Next]_vars

SpecPartition == InitPartition /\ [][Next]_vars

(* read pairs of the runs with scheduling assumptions: two samples, a     *)
(* failure and a panic                                                    *)
LivePool == {PairOk, PairOtherSample, PairNoAnchor, PairShort}

InitLive ==
    \E pairs \in SeqsUpTo(LivePool, MaxLen), cs \in 1..MaxChunkSize :
        InitRun(pairs, <<>>, <<>>, EmptyDir, "s1", cs, 1)

(* closure invocations that hold an entry of the table *)
Holders == {w \in DOMAIN wpc : wpc[w] \in {"inner", "cell"}}

(* the next step of closure invocation k; a DashMap locks a shard, and    *)
(* samples may share one: table.entry(sample) is only taken to return     *)
(* once no entry of the table is held at all                              *)
WorkerStep(k) ==
    /\ k \in DOMAIN wpc
    /\ \/ Start(k)
       \/ Classify(k)
       \/ Holders = {} /\ OuterEntry(k)
       \/ InnerEntry(k)
       \/ CellAdd(k)

(* The threads of the pool keep running: a closure invocation that can    *)
(* take its next step takes it, and for_each returns or resumes the panic *)
(* once the invocations have ended.                                       *)
Fairness ==
    /\ \A k \in 1..MaxChunkSize : WF_vars(WorkerStep(k))
    /\ WF_vars(PropagatePanic \/ ExportChunk)

SpecLive == InitLive /\ [][Next]_vars /\ Fairness

(* process_fastq is called a second time with the same arguments, once    *)
(* the first call has returned or panicked: prepare_dirs finds the        *)
(* directories as the first call left them.                               *)
Rerun ==
    /\ pc \in {"done", "panicked"}
    /\ prev = <<>>
    /\ prev' = <<[parquet |-> parquet, qc |-> qc, counts |-> countsDir]>>
    /\ root0' = parquet
    /\ pc' = "pull"
    /\ iter1' = 0
    /\ iter2' = 0
    /\ i' = 0
    /\ n' = 0
    /\ chunk1' = <<>>
    /\ chunk2' = <<>>
    /\ wpc' = <<>>
    /\ res' = <<>>
    /\ counters' = Counters0
    /\ table' = EmptyTable
    /\ merged' = <<>>
    /\ UNCHANGED <<file1, file2, sample_name, chunk_size, parquet_size,
                   parquet, qc, countsDir>>

NextRerun == Next \/ Rerun

(* read pairs of the runs that are repeated: two rows of one directory,   *)
(* two samples and a panic                                                *)
RerunPool == {PairOk, PairOtherRbs, PairOtherSample, PairShort}

InitRerun ==
    \E pairs \in SeqsUpTo(RerunPool, MaxLen), cs \in 1..MaxChunkSize,
       ps \in 1..MaxParquetSize, dir \in {EmptyDir, StaleDir} :
        InitRun(pairs, <<>>, <<>>, dir, "s1", cs, ps)

SpecRerun == InitRerun /\ [][NextRerun]_vars

----------------------------------------------------------------------------
(* Properties *)

(* the closure invocation of pair k has its result from classify_pair *)
Classified(k) == wpc[k] \in {"outer", "inner", "cell", "done", "panicked"}

(* the driver is between chunks or past the loop: every worker has joined *)
AtBoundary == pc \in {"pull", "qc", "merge", "partition", "done"}

(* number of read pairs the chunks pulled so far have zipped *)
PairsPulled == Min({iter1, iter2})

(* the two files pair up: same number of records, same identifiers *)
WellPaired ==
    /\ Len(file1) = Len(file2)
    /\ \A j \in DOMAIN file1 : file1[j].id = file2[j].id

(* C1: whenever all workers have joined (at every chunk boundary and after *)
(* the loop), total counts every pair processed once, and total equals     *)
(* valid plus the sum of the seven failure counters.                       *)
C1_CounterAccounting ==
    AtBoundary =>
        /\ counters.total = PairsPulled
        /\ counters.total = counters.valid + FailTotal(counters)

(* C1 witness: a chunk of two pairs, one valid and one failed, has joined. *)
C1_Witness ==
    /\ pc = "pull"
    /\ chunk_size = 2
    /\ i = 1
    /\ counters.total = 2
    /\ counters.valid = 1
    /\ counters.fails[FailOrd("ConstantSeq")] = 1

RECURSIVE SeqTable(_, _, _)
(* the table of one sequential pass over the first k pairs of f1 and f2 *)
SeqTable(f1, f2, k) ==
    IF k = 0 THEN EmptyTable
    ELSE LET t == SeqTable(f1, f2, k - 1)
             r == classify_pair(Config, f1[k], f2[k])
         IN  IF r.kind # "ok" THEN t
             ELSE cell_add(entry_rbs(entry_sample(t, r.sample), r.sample, r.rbs),
                           r.sample, r.rbs, r.flip)

(* C2: on a fresh output root and well-paired inputs, the merged table has *)
(* the rows of a single sequential pass over the whole input, whatever the *)
(* chunk size.                                                             *)
C2_ChunkSizeInvariance ==
    (pc \in {"partition", "done"} /\ root0 = EmptyDir /\ WellPaired) =>
        /\ Range(merged) = CellRows(SeqTable(file1, file2, Len(file1)))
        /\ Len(merged) = Cardinality(Range(merged))

(* C2 witness: two chunks of one pair each were merged into one row. *)
C2_Witness ==
    /\ pc = "done"
    /\ root0 = EmptyDir
    /\ WellPaired
    /\ chunk_size = 1
    /\ i = 2
    /\ Len(merged) = 1
    /\ merged[1].unflipped + merged[1].flipped = 2

(* the rows of the chunk files, as (file, index) pairs *)
FileRows == UNION {{<<f, k>> : k \in DOMAIN parquet[f]} : f \in DOMAIN parquet}

RECURSIVE SumUnflipped(_)
SumUnflipped(S) ==
    IF S = {} THEN 0
    ELSE LET fr == CHOOSE x \in S : TRUE
         IN  parquet[fr[1]][fr[2]].unflipped + SumUnflipped(S \ {fr})

RECURSIVE SumFlipped(_)
SumFlipped(S) ==
    IF S = {} THEN 0
    ELSE LET fr == CHOOSE x \in S : TRUE
         IN  parquet[fr[1]][fr[2]].flipped + SumFlipped(S \ {fr})

(* C3: the merged table has exactly one row per key of the chunk files,   *)
(* holding the sums of the unflipped and flipped values of that key.      *)
C3_MergeGroupAndSum ==
    pc \in {"partition", "done"} =>
        LET keys == {RowKey(parquet[fr[1]][fr[2]]) : fr \in FileRows}
            rowsOf(key) == {fr \in FileRows : RowKey(parquet[fr[1]][fr[2]]) = key}
        IN  /\ {RowKey(merged[j]) : j \in DOMAIN merged} = keys
            /\ Len(merged) = Cardinality(keys)
            /\ \A j \in DOMAIN merged :
                  /\ merged[j].unflipped = SumUnflipped(rowsOf(RowKey(merged[j])))
                  /\ merged[j].flipped = SumFlipped(rowsOf(RowKey(merged[j])))

(* C3 witness: a key present in several files was summed, next to another *)
(* key.                                                                   *)
C3_Witness ==
    /\ pc = "partition"
    /\ Cardinality(DOMAIN parquet) >= 2
    /\ Len(merged) >= 2
    /\ \E j \in DOMAIN merged : merged[j].unflipped + merged[j].flipped >= 2

(* the pair of closure invocation k is one classify_pair is specified on: *)
(* matching identifiers and two valid texts                               *)
ValidPair(k) ==
    /\ chunk1[k].id = chunk2[k].id
    /\ IsUtf8(chunk1[k].seq)
    /\ IsUtf8(chunk2[k].seq)

(* combined number of N of the pair of closure invocation k *)
PairN(k) == CountN(chunk1[k].seq) + CountN(chunk2[k].seq)

(* C4: on every pair with matching identifiers and valid text, of any     *)
(* length, classify_pair returns a success or one of the seven failure    *)
(* reasons and never aborts.                                              *)
C4_ClassifierTotality ==
    \A k \in DOMAIN wpc :
        (Classified(k) /\ ValidPair(k)) => res[k].kind \in {"ok", "fail"}

(* the motif occurs in s at offset q *)
OccursAt(s, motif, q) ==
    /\ q >= 0
    /\ q + Len(motif) <= Len(s)
    /\ Slice(s, q, q + Len(motif)) = motif

(* offsets of the occurrences of the motif in s *)
Occurrences(s, motif) == {q \in 0..Len(s) : OccursAt(s, motif, q)}

(* offsets of the anchor occurrences lying inside the 1-indexed window *)
AnchorsInWindow(seq2) ==
    {q \in Occurrences(seq2, CONSTANT_REGION) :
        /\ q >= CONSTANT_REGION_WINDOW[1] - 1
        /\ q + Len(CONSTANT_REGION) <= CONSTANT_REGION_WINDOW[2]}

(* The checks of the decision pipeline, each stated on the reads alone:   *)
(* the set of the checks the pair fails.                                  *)
FailedChecks(seq1, seq2) ==
    LET anchors == AnchorsInWindow(seq2)
        a == IF anchors = {} THEN None ELSE Min(anchors)
        posOk == a # None /\ a >= BARCODE_LEN /\ a + BARCODE_LEN + RBS_LEN <= Len(seq2)
        nfs == Occurrences(seq1, NON_FLIPPED_SEQ)
        fls == Occurrences(seq1, FLIPPED_SEQ)
        d == IF nfs # {} THEN Min(nfs) ELSE IF fls # {} THEN Min(fls) ELSE None
        dOk == d # None /\ d >= DISCRIMINATOR_OFFSET + BARCODE_LEN
    IN  {r \in FailReasons :
            \/ r = "BaseCalls" /\ CountN(seq1) + CountN(seq2) > MAX_N_COUNT
            \/ r = "ConstantSeq" /\ a = None
            \/ r = "ConstantPos" /\ a # None /\ ~posOk
            \/ r = "Barcode2" /\ (~posOk \/ ~Contains(BARCODES_2, Slice(seq2, a - BARCODE_LEN, a)))
            \/ r = "DiscSeq" /\ d = None
            \/ r = "DiscPos" /\ d # None /\ ~dOk
            \/ r = "Barcode1"
               /\ (~dOk \/ ~Contains(BARCODES_1,
                                Slice(seq1, d - DISCRIMINATOR_OFFSET - BARCODE_LEN,
                                      d - DISCRIMINATOR_OFFSET)))}

(* the order in which the pipeline evaluates the checks *)
DecisionOrder ==
    <<"BaseCalls", "ConstantSeq", "ConstantPos", "Barcode2", "DiscSeq",
      "DiscPos", "Barcode1">>

(* the first check of the decision order among the failed ones *)
FirstFailed(failed) ==
    DecisionOrder[Min({j \in DOMAIN DecisionOrder : DecisionOrder[j] \in failed})]

(* C5: classify_pair reports the first failing check in the order         *)
(* BaseCalls, ConstantSeq, ConstantPos, Barcode2, DiscSeq, DiscPos,       *)
(* Barcode1, and succeeds only if no check fails.                         *)
C5_DecisionOrder ==
    \A k \in DOMAIN wpc :
        (Classified(k) /\ ValidPair(k)) =>
            LET failed == FailedChecks(chunk1[k].seq, chunk2[k].seq)
            IN  IF failed = {} THEN res[k].kind = "ok"
                ELSE res[k] = Failure(FirstFailed(failed))

(* C6: when the two files hold different numbers of records the run does  *)
(* not leave the loop normally and go on to the QC and counts outputs.    *)
C6_LengthMismatchFatal ==
    Len(file1) # Len(file2) => pc \notin {"qc", "merge", "partition", "done"}

(* positions at which the two files hold records of different identifiers *)
MismatchAt ==
    {j \in 1..Min({Len(file1), Len(file2)}) : file1[j].id # file2[j].id}

(* C7: with an identifier mismatch in the input the run never leaves the  *)
(* loop normally, the chunk holding the first mismatched pair is never    *)
(* exported, no QC summary and no counts are written, and only pairs with *)
(* matching identifiers are counted as valid or as failures.              *)
C7_IdMismatchFatal ==
    MismatchAt # {} =>
        /\ pc \in {"pull", "par", "panicked"}
        /\ i * chunk_size < Min(MismatchAt)
        /\ qc = EmptyDir
        /\ countsDir = EmptyDir
        /\ counters.valid + FailTotal(counters)
             <= Cardinality({j \in 1..PairsPulled : file1[j].id = file2[j].id})

(* C7 witness: after an exported chunk, validate_pairs has panicked on a  *)
(* mismatched pair and the run has halted.                                *)
C7_Witness ==
    /\ pc = "panicked"
    /\ i >= 1
    /\ \E k \in DOMAIN wpc :
          wpc[k] = "panicked" /\ chunk1[k].id # chunk2[k].id

(* C8: a valid pair with at most MAX_N_COUNT ambiguous bases in total is  *)
(* not rejected with BaseCalls, and one with more is rejected with        *)
(* BaseCalls whatever else it holds.                                      *)
C8_BaseCallsBoundary ==
    \A k \in DOMAIN wpc :
        (Classified(k) /\ ValidPair(k)) =>
            /\ PairN(k) <= MAX_N_COUNT => res[k] # Failure("BaseCalls")
            /\ PairN(k) >= MAX_N_COUNT + 1 => res[k] = Failure("BaseCalls")

(* C8 witness: a pair with exactly MAX_N_COUNT ambiguous bases succeeded. *)
C8_Witness ==
    \E k \in DOMAIN wpc :
        Classified(k) /\ ValidPair(k) /\ PairN(k) = MAX_N_COUNT /\ res[k].kind = "ok"

(* the pair of closure invocation k passes the ambiguous-base check *)
PassesBaseCalls(k) == ValidPair(k) /\ PairN(k) <= MAX_N_COUNT

(* C9 as stated: an anchor at offset BARCODE_LEN (with room for the RBS)  *)
(* is not rejected with ConstantPos, and an anchor at offset              *)
(* BARCODE_LEN - 1 (in a read 2 that covers the window) is rejected with  *)
(* ConstantPos.                                                           *)
C9_AnchorBoundaryAsStated ==
    \A k \in DOMAIN wpc :
        (Classified(k) /\ PassesBaseCalls(k)) =>
            LET seq2 == chunk2[k].seq
            IN  /\ (/\ Occurrences(seq2, CONSTANT_REGION) = {BARCODE_LEN}
                    /\ Len(seq2) >= BARCODE_LEN + BARCODE_LEN + RBS_LEN)
                   => res[k] # Failure("ConstantPos")
                /\ (/\ Occurrences(seq2, CONSTANT_REGION) = {BARCODE_LEN - 1}
                    /\ Len(seq2) >= CONSTANT_REGION_WINDOW[2])
                   => res[k] = Failure("ConstantPos")

(* C9 amended: an anchor at offset BARCODE_LEN (with room for the RBS) is *)
(* not rejected with ConstantPos; an anchor at offset BARCODE_LEN - 1 is  *)
(* outside the search window and, in a read 2 that covers the window, is  *)
(* rejected with ConstantSeq.                                             *)
C9_AnchorBoundary ==
    \A k \in DOMAIN wpc :
        (Classified(k) /\ PassesBaseCalls(k)) =>
            LET seq2 == chunk2[k].seq
            IN  /\ (/\ Occurrences(seq2, CONSTANT_REGION) = {BARCODE_LEN}
                    /\ Len(seq2) >= BARCODE_LEN + BARCODE_LEN + RBS_LEN)
                   => res[k] # Failure("ConstantPos")
                /\ (/\ Occurrences(seq2, CONSTANT_REGION) = {BARCODE_LEN - 1}
                    /\ Len(seq2) >= CONSTANT_REGION_WINDOW[2])
                   => res[k] = Failure("ConstantSeq")

(* C9 witness: both boundary cases are in the pool; this one is the read  *)
(* with the anchor at BARCODE_LEN - 1, rejected with ConstantSeq.         *)
C9_Witness ==
    \E k \in DOMAIN wpc :
        /\ Classified(k)
        /\ PassesBaseCalls(k)
        /\ Occurrences(chunk2[k].seq, CONSTANT_REGION) = {BARCODE_LEN - 1}
        /\ Len(chunk2[k].seq) >= CONSTANT_REGION_WINDOW[2]
        /\ res[k] = Failure("ConstantSeq")

(* A run over two single-pair files on a fresh root, read 1 being a       *)
(* barcode of BARCODES_1, gap more bases and the non-flipped motif, read  *)
(* 2 holding a barcode of BARCODES_2 right before the anchor inside the   *)
(* window and RBS_LEN bases after it; at most MAX_N_COUNT bases are N.    *)
Scenario(gap) ==
    /\ Len(file1) = 1
    /\ Len(file2) = 1
    /\ root0 = EmptyDir
    /\ file1[1].id = file2[1].id
    /\ IsUtf8(file1[1].seq)
    /\ IsUtf8(file2[1].seq)
    /\ CountN(file1[1].seq) + CountN(file2[1].seq) <= MAX_N_COUNT
    /\ Len(file1[1].seq) >= BARCODE_LEN
    /\ Contains(BARCODES_1, Slice(file1[1].seq, 0, BARCODE_LEN))
    /\ Occurrences(file1[1].seq, NON_FLIPPED_SEQ) = {BARCODE_LEN + gap}
    /\ \E a \in AnchorsInWindow(file2[1].seq) :
          /\ a >= BARCODE_LEN
          /\ Contains(BARCODES_2, Slice(file2[1].seq, a - BARCODE_LEN, a))
          /\ Len(file2[1].seq) >= a + Len(CONSTANT_REGION) + RBS_LEN

(* one row under barcode1=<b1>/barcode2=<b2> with unflipped = 1 and       *)
(* flipped = 0, total = 1, valid = 1 and no failure counted               *)
ScenarioOutcome ==
    LET seq1 == file1[1].seq
        seq2 == file2[1].seq
        a == Min(AnchorsInWindow(seq2))
        b1 == Slice(seq1, 0, BARCODE_LEN)
        b2 == Slice(seq2, a - BARCODE_LEN, a)
        rbs == Slice(seq2, a + Len(CONSTANT_REGION), a + Len(CONSTANT_REGION) + RBS_LEN)
    IN  /\ DOMAIN countsDir = {<<sample_name, b1, b2, <<0>>>>}
        /\ countsDir[<<sample_name, b1, b2, <<0>>>>] = <<Row(b1, b2, rbs, 1, 0)>>
        /\ counters = [Counters0 EXCEPT !.total = 1, !.valid = 1]

(* C10 as stated: the scenario with the two bases "AA" between barcode 1  *)
(* and the non-flipped motif ends with one row and total = valid = 1.     *)
C10_ScenarioAsStated ==
    (/\ Scenario(2)
     /\ Slice(file1[1].seq, BARCODE_LEN, BARCODE_LEN + 2) = <<"A", "A">>
     /\ pc = "done")
    => ScenarioOutcome

(* C10 amended: the scenario with DISCRIMINATOR_OFFSET bases between      *)
(* barcode 1 and the non-flipped motif never aborts and ends with one row *)
(* under its barcode pair, unflipped = 1, flipped = 0, total = valid = 1  *)
(* and every failure counter 0.                                           *)
C10_Scenario ==
    Scenario(DISCRIMINATOR_OFFSET) =>
        /\ pc # "panicked"
        /\ pc = "done" => ScenarioOutcome

(* C10 witness: a run of the amended scenario has ended with its row.     *)
C10_Witness ==
    /\ Scenario(DISCRIMINATOR_OFFSET)
    /\ pc = "done"
    /\ countsDir # EmptyDir
    /\ counters.valid = 1

(* A run on a fresh root over two single-pair files with matching         *)
(* identifiers, valid text and at most MAX_N_COUNT bases N, in which read *)
(* 2 does not hold the anchor motif anywhere.                             *)
AbsentAnchorRun ==
    /\ Len(file1) = 1
    /\ Len(file2) = 1
    /\ root0 = EmptyDir
    /\ file1[1].id = file2[1].id
    /\ IsUtf8(file1[1].seq)
    /\ IsUtf8(file2[1].seq)
    /\ CountN(file1[1].seq) + CountN(file2[1].seq) <= MAX_N_COUNT
    /\ Occurrences(file2[1].seq, CONSTANT_REGION) = {}

(* a pair classified as a failure goes no further than its counter, and   *)
(* every Sample entry and every rbs sub-entry of the chunk's table comes  *)
(* from a pair classified as a success                                    *)
FailureLeavesTable ==
    /\ \A k \in DOMAIN wpc : res[k].kind = "fail" => wpc[k] = "done"
    /\ \A s \in DOMAIN table :
          /\ \E k \in DOMAIN wpc : res[k].kind = "ok" /\ res[k].sample = s
          /\ \A g \in DOMAIN table[s] :
                \E k \in DOMAIN wpc :
                    res[k].kind = "ok" /\ res[k].sample = s /\ res[k].rbs = g

(* C11: a pair classified as a failure changes only total and the counter *)
(* of its reason and leaves the chunk's table alone; a single-pair run    *)
(* whose read 2 lacks the anchor motif does not abort and ends with       *)
(* total = 1, valid = 0, ConstantSeq = 1 and no rows in the counts        *)
(* output.                                                                *)
C11_FailureFrame ==
    /\ FailureLeavesTable
    /\ AbsentAnchorRun =>
          /\ pc # "panicked"
          /\ pc = "done" =>
                /\ counters = [Counters0 EXCEPT !.total = 1,
                                  !.fails[FailOrd("ConstantSeq")] = 1]
                /\ countsDir = EmptyDir

(* the least c with c * s >= n *)
CeilDiv(n_rows, s) == CHOOSE c \in 0..n_rows : c * s >= n_rows /\ (c - 1) * s < n_rows

RECURSIVE DigitsValue(_)
(* the number a string of decimal digits denotes *)
DigitsValue(d) ==
    IF d = <<>> THEN 0
    ELSE 10 * DigitsValue(SubSeq(d, 1, Len(d) - 1)) + d[Len(d)]

(* the barcode pairs of the merged table *)
MergedPairs == {<<merged[k].barcode1, merged[k].barcode2>> : k \in DOMAIN merged}

(* the rows of the merged table of one barcode pair, in table order *)
PairRows(bp) ==
    SelectSeq(merged, LAMBDA r : r.barcode1 = bp[1] /\ r.barcode2 = bp[2])

(* the files of dirs.counts in the directory of a sample and barcode pair *)
PartFiles(name, bp) ==
    {p \in DOMAIN countsDir : p[1] = name /\ p[2] = bp[1] /\ p[3] = bp[2]}

RECURSIVE ConcatByIndex(_, _)
(* the rows of the files of the set numbered 0 .. c - 1, in index order *)
ConcatByIndex(files, c) ==
    IF c = 0 THEN <<>>
    ELSE ConcatByIndex(files, c - 1)
         \o countsDir[CHOOSE p \in files : DigitsValue(p[4]) = c - 1]

(* C12: for every table handed to save_by_chunks (n >= 1 rows, limit s),  *)
(* the directory holds exactly ceil(n / s) files, numbered 0 to            *)
(* ceil(n / s) - 1 with names of one common width, each of 1 to s rows,    *)
(* whose concatenation in index order is the table.                        *)
C12_SizeBoundedFiles ==
    pc = "done" =>
        \A bp \in MergedPairs :
            LET df == PairRows(bp)
                files == PartFiles(sample_name, bp)
                c == CeilDiv(Len(df), parquet_size)
            IN  /\ Cardinality(files) = c
                /\ {DigitsValue(p[4]) : p \in files} = 0..(c - 1)
                /\ \A p, q \in files : Len(p[4]) = Len(q[4])
                /\ \A p \in files :
                      Len(countsDir[p]) >= 1 /\ Len(countsDir[p]) <= parquet_size
                /\ ConcatByIndex(files, c) = df

(* C12 witness: a table was split into ten files or more of at most two  *)
(* rows, named with two digits, the last of them holding one row.         *)
C12_Witness ==
    /\ pc = "done"
    /\ parquet_size = 2
    /\ \E bp \in MergedPairs :
          /\ Cardinality(PartFiles(sample_name, bp)) >= 10
          /\ \A p \in PartFiles(sample_name, bp) : Len(p[4]) = 2
          /\ \E p \in PartFiles(sample_name, bp) : Len(countsDir[p]) = 1

(* the rows of the counts files, as (path, index) pairs *)
CountsRows == UNION {{<<p, k>> : k \in DOMAIN countsDir[p]} : p \in DOMAIN countsDir}

(* C13: the directories written are those of the barcode pairs that have  *)
(* a row in the merged table, under the sample name of the run; every row *)
(* of the merged table is written exactly once, under the directory of    *)
(* its own barcode1 and barcode2.                                          *)
C13_PartitionBySample ==
    pc = "done" =>
        /\ {<<p[1], p[2], p[3]>> : p \in DOMAIN countsDir}
             = {<<sample_name, bp[1], bp[2]>> : bp \in MergedPairs}
        /\ \A pk \in CountsRows :
              /\ countsDir[pk[1]][pk[2]].barcode1 = pk[1][2]
              /\ countsDir[pk[1]][pk[2]].barcode2 = pk[1][3]
        /\ \A j \in DOMAIN merged :
              Cardinality({pk \in CountsRows : countsDir[pk[1]][pk[2]] = merged[j]})
                = Cardinality({l \in DOMAIN merged : merged[l] = merged[j]})
        /\ Cardinality(CountsRows) = Len(merged)

(* C13 witness: two barcode pairs that share no barcode were written, so  *)
(* two of the four combinations of their barcodes were skipped.           *)
C13_Witness ==
    /\ pc = "done"
    /\ Cardinality(MergedPairs) = 2
    /\ Cardinality({bp[1] : bp \in MergedPairs}) = 2
    /\ Cardinality({bp[2] : bp \in MergedPairs}) = 2
    /\ Cardinality({<<p[2], p[3]>> : p \in DOMAIN countsDir}) = 2

(* the chunk files this run has exported *)
OwnChunkFiles == {ChunkName(j) : j \in 1..i}

(* C14: the merge stage combines only the chunk files that this run has   *)
(* exported; chunk files left by an earlier run do not reach the counts.  *)
C14_StaleChunksIgnored ==
    pc \in {"partition", "done"} =>
        merged = GroupBySum(Concat(parquet, SortNames(OwnChunkFiles)))

(* C15: the QC summary is written only once the merge stage has           *)
(* completed, and a run that completes has written one QC summary.        *)
C15_QcAfterMerge ==
    /\ qc # EmptyDir => pc \in {"partition", "done"}
    /\ pc = "done" => Cardinality(DOMAIN qc) = 1

(* the rows of the QC table in the order of the claim: the row name and   *)
(* the outcome of classify_pair it counts                                 *)
QcOrder ==
    << <<"base_calls", "BaseCalls">>, <<"constant_seq", "ConstantSeq">>,
       <<"constant_pos", "ConstantPos">>, <<"barcode_1", "Barcode1">>,
       <<"barcode_2", "Barcode2">>, <<"disc_seq", "DiscSeq">>,
       <<"disc_pos", "DiscPos">> >>

(* pairs of the input, among those processed, that classify_pair returns  *)
(* the result of the given kind and reason for                            *)
PairsWith(kind, reason) ==
    {j \in 1..PairsPulled :
        LET r == classify_pair(Config, file1[j], file2[j])
        IN  r.kind = kind /\ r.reason = reason}

(* C16: the QC table has nine rows, total, valid and the seven reasons in *)
(* the declared order, and the value of each row is the final number of   *)
(* pairs counted under the name of the row.                               *)
C16_QcSchema ==
    qc # EmptyDir =>
        LET t == qc[QcSample]
        IN  /\ Len(t) = 9
            /\ t[1] = <<"total", PairsPulled>>
            /\ t[2] = <<"valid", Cardinality(PairsWith("ok", ""))>>
            /\ \A j \in 1..7 :
                  t[j + 2] = <<QcOrder[j][1],
                               Cardinality(PairsWith("fail", QcOrder[j][2]))>>

(* C16 witness: the QC table of a run whose pair failed with Barcode2.    *)
C16_Witness ==
    /\ pc = "done"
    /\ qc # EmptyDir
    /\ PairsWith("fail", "Barcode2") # {}
    /\ qc[QcSample][7] = <<"barcode_2", 1>>

(* every closure invocation of the chunk has returned: for_each is over   *)
AllJoined == pc = "par" /\ \A k \in DOMAIN wpc : wpc[k] = "done"

(* closure invocations whose pair classified to the key and orientation   *)
ClassifiedTo(sample, rbs, flip) ==
    {k \in DOMAIN res :
        /\ res[k].kind = "ok"
        /\ res[k].sample = sample
        /\ res[k].rbs = rbs
        /\ res[k].flip = flip}

(* C17: once all workers of a chunk have joined, in every interleaving,   *)
(* the table holds one Sample entry per sample and one cell per (sample,  *)
(* rbs) key that a pair of the chunk classified to, and the two slots of  *)
(* each cell are the numbers of pairs classified to the key with the      *)
(* non-flipped and the flipped orientation.                               *)
C17_IdempotentCells ==
    AllJoined =>
        /\ DOMAIN table = {res[k].sample : k \in {w \in DOMAIN res : res[w].kind = "ok"}}
        /\ \A s \in DOMAIN table :
              /\ DOMAIN table[s]
                   = {res[k].rbs : k \in {w \in DOMAIN res :
                                           res[w].kind = "ok" /\ res[w].sample = s}}
              /\ \A g \in DOMAIN table[s] :
                    /\ table[s][g][1] = Cardinality(ClassifiedTo(s, g, "NonFlipped"))
                    /\ table[s][g][2] = Cardinality(ClassifiedTo(s, g, "Flipped"))

(* C17 witness: two workers of one chunk have written the same key.       *)
C17_Witness ==
    /\ AllJoined
    /\ Len(wpc) = 2
    /\ res[1].kind = "ok"
    /\ res[2].kind = "ok"
    /\ res[1].sample = res[2].sample
    /\ res[1].rbs = res[2].rbs
    /\ table[res[1].sample][res[1].rbs][1] + table[res[1].sample][res[1].rbs][2] = 2

(* C18: records are pulled only when no worker of an earlier chunk is     *)
(* left, all the records pulled before belong to the chunks counted in i  *)
(* and the files of those chunks are exported; a worker starts only when  *)
(* its chunk is the one after the exported chunks.                        *)
C18_ChunksSequential ==
    [][/\ (iter1' # iter1 \/ iter2' # iter2) =>
              /\ wpc = <<>>
              /\ table = EmptyTable
              /\ iter1 <= i * chunk_size
              /\ \A j \in 1..i : ChunkName(j) \in DOMAIN parquet
       /\ \A k \in DOMAIN wpc :
              (wpc[k] = "ready" /\ k \in DOMAIN wpc' /\ wpc'[k] = "classify") =>
                  /\ iter1 > i * chunk_size
                  /\ iter1 <= (i + 1) * chunk_size
                  /\ \A j \in 1..i : ChunkName(j) \in DOMAIN parquet]_vars

(* C18 witness: a worker of the second chunk runs, the file of the first  *)
(* chunk being on disk.                                                   *)
C18_Witness ==
    /\ pc = "par"
    /\ root0 = EmptyDir
    /\ i = 1
    /\ ChunkName(1) \in DOMAIN parquet
    /\ \E k \in DOMAIN wpc : wpc[k] = "classify"

(* positions in the input of the pairs zipped into chunk j *)
ChunkPairs(j) ==
    ((j - 1) * chunk_size + 1)..Min({j * chunk_size, Len(file1), Len(file2)})

(* pairs of chunk j that classify_pair classifies to the key, orientation *)
ChunkClassifiedTo(j, sample, rbs, flip) ==
    {p \in ChunkPairs(j) :
        classify_pair(Config, file1[p], file2[p]) = Success(sample.barcode1, sample.barcode2, rbs, flip)}

(* pairs of chunk j that classify successfully *)
ChunkValid(j) ==
    {p \in ChunkPairs(j) : classify_pair(Config, file1[p], file2[p]).kind = "ok"}

RECURSIVE RowsTotal(_)
(* sum of the unflipped and flipped values of the rows *)
RowsTotal(rows) ==
    IF rows = <<>> THEN 0
    ELSE Head(rows).unflipped + Head(rows).flipped + RowsTotal(Tail(rows))

(* C19: the file exported for chunk j holds one row per key that a pair   *)
(* of chunk j classified to, with the numbers of the pairs of chunk j of  *)
(* each orientation, and nothing of another chunk: its values add up to   *)
(* the number of valid pairs of chunk j.                                  *)
C19_ChunkExportPrivate ==
    \A j \in 1..i :
        LET file == parquet[ChunkName(j)]
            keys == {<<r.sample, r.rbs>> :
                        r \in {classify_pair(Config, file1[p], file2[p]) : p \in ChunkValid(j)}}
        IN  /\ {<<[barcode1 |-> file[k].barcode1, barcode2 |-> file[k].barcode2],
                  file[k].gre>> : k \in DOMAIN file} = keys
            /\ Len(file) = Cardinality(keys)
            /\ \A k \in DOMAIN file :
                  LET s == [barcode1 |-> file[k].barcode1, barcode2 |-> file[k].barcode2]
                  IN  /\ file[k].unflipped
                           = Cardinality(ChunkClassifiedTo(j, s, file[k].gre, "NonFlipped"))
                      /\ file[k].flipped
                           = Cardinality(ChunkClassifiedTo(j, s, file[k].gre, "Flipped"))
            /\ RowsTotal(file) = Cardinality(ChunkValid(j))

(* C19 witness: two chunks of one pair of the same key were exported,     *)
(* each file holding the count of its own pair only.                      *)
C19_Witness ==
    /\ i = 2
    /\ chunk_size = 1
    /\ root0 = EmptyDir
    /\ Len(parquet[ChunkName(1)]) = 1
    /\ Len(parquet[ChunkName(2)]) = 1
    /\ RowKey(parquet[ChunkName(1)][1]) = RowKey(parquet[ChunkName(2)][1])
    /\ RowsTotal(parquet[ChunkName(2)]) = 1

(* C21: on two files of the same length L >= 1 with matching identifiers  *)
(* the run does not abort in the loop, the workers of a chunk get the     *)
(* pairs of equal positions, and the loop is left with both files read to *)
(* the end, ceil(L / chunk_size) chunk files exported under the indices   *)
(* 1, 2, ... in this order, and total = L.                                *)
C21_NormalTermination ==
    (WellPaired /\ Len(file1) >= 1) =>
        /\ pc # "panicked"
        /\ pc = "par" =>
              \A k \in DOMAIN wpc :
                  chunk1[k] = file1[n + k] /\ chunk2[k] = file2[n + k]
        /\ \A j \in 1..i : ChunkName(j) \in DOMAIN parquet
        /\ pc \in {"qc", "merge", "partition", "done"} =>
              /\ iter1 = Len(file1)
              /\ iter2 = Len(file2)
              /\ n = Len(file1)
              /\ i = CeilDiv(Len(file1), chunk_size)
              /\ counters.total = Len(file1)

(* C22: a pair that reaches the anchor search fails with ConstantSeq when *)
(* no occurrence of the anchor motif lies wholly inside the window, and   *)
(* otherwise goes on with the leftmost occurrence inside the window: it   *)
(* does not fail with ConstantSeq, and a success returns the barcode 2    *)
(* before and the RBS after that occurrence.                              *)
C22_AnchorWindow ==
    \A k \in DOMAIN wpc :
        (Classified(k) /\ PassesBaseCalls(k)) =>
            LET seq2 == chunk2[k].seq
                inside == AnchorsInWindow(seq2)
            IN  /\ inside = {} => res[k] = Failure("ConstantSeq")
                /\ inside # {} =>
                      /\ res[k] # Failure("ConstantSeq")
                      /\ res[k].kind = "ok" =>
                            LET p == Min(inside)
                            IN  /\ res[k].sample.barcode2 = Slice(seq2, p - BARCODE_LEN, p)
                                /\ res[k].rbs
                                     = Slice(seq2, p + Len(CONSTANT_REGION),
                                             p + Len(CONSTANT_REGION) + RBS_LEN)

(* every row of the table has barcodes of the configured sets and an RBS  *)
(* of RBS_LEN characters                                                  *)
RowsWellFormed(rows) ==
    \A j \in DOMAIN rows :
        /\ Contains(BARCODES_1, rows[j].barcode1)
        /\ Contains(BARCODES_2, rows[j].barcode2)
        /\ Len(rows[j].gre) = RBS_LEN

(* C23: a success returns the RBS_LEN characters right after the leftmost *)
(* anchor occurrence p of the window as the rbs, the BARCODE_LEN          *)
(* characters before p as barcode 2, a member of BARCODES_2, and a member *)
(* of BARCODES_1 as barcode 1; every row of the chunk files, of the       *)
(* merged table and of the counts files has such barcodes and an rbs of   *)
(* RBS_LEN characters.                                                    *)
C23_ExtractionOnSuccess ==
    /\ \A k \in DOMAIN wpc :
          (Classified(k) /\ res[k].kind = "ok") =>
              LET seq2 == chunk2[k].seq
                  inside == AnchorsInWindow(seq2)
              IN  /\ inside # {}
                  /\ Min(inside) >= BARCODE_LEN
                  /\ Min(inside) + Len(CONSTANT_REGION) + RBS_LEN <= Len(seq2)
                  /\ res[k].rbs
                       = Slice(seq2, Min(inside) + Len(CONSTANT_REGION),
                               Min(inside) + Len(CONSTANT_REGION) + RBS_LEN)
                  /\ Len(res[k].rbs) = RBS_LEN
                  /\ res[k].sample.barcode2
                       = Slice(seq2, Min(inside) - BARCODE_LEN, Min(inside))
                  /\ Contains(BARCODES_2, res[k].sample.barcode2)
                  /\ Contains(BARCODES_1, res[k].sample.barcode1)
    /\ \A f \in DOMAIN parquet : RowsWellFormed(parquet[f])
    /\ RowsWellFormed(merged)
    /\ \A f \in DOMAIN countsDir : RowsWellFormed(countsDir[f])

(* C23 witness: a success on a read 2 whose anchor is at offset 8, after  *)
(* the barcode CGATGT and before the RBS.                                 *)
C23_Witness ==
    \E k \in DOMAIN wpc :
        /\ Classified(k)
        /\ res[k].kind = "ok"
        /\ AnchorsInWindow(chunk2[k].seq) = {8}
        /\ res[k].sample.barcode2 = BC_CGATGT
        /\ res[k].rbs = RBS_B

(* the classification of pair k ended at the discriminator search or      *)
(* after it                                                               *)
ReachesDisc(k) ==
    \/ res[k].kind = "ok"
    \/ res[k] \in {Failure("DiscSeq"), Failure("DiscPos"), Failure("Barcode1")}

(* offset of the discriminator of read 1: the first non-flipped           *)
(* occurrence if there is one, else the first flipped occurrence          *)
DiscStart(seq1) ==
    IF Occurrences(seq1, NON_FLIPPED_SEQ) # {} THEN Min(Occurrences(seq1, NON_FLIPPED_SEQ))
    ELSE IF Occurrences(seq1, FLIPPED_SEQ) # {} THEN Min(Occurrences(seq1, FLIPPED_SEQ))
    ELSE None

(* C24: for a pair that reaches the discriminator search, a read 1 that   *)
(* holds the non-flipped motif gives NonFlipped and the position of its   *)
(* first non-flipped occurrence, wherever the flipped motif occurs; the   *)
(* orientation is Flipped only without the non-flipped motif; the pair    *)
(* fails with DiscSeq exactly when neither motif occurs.                  *)
C24_NonFlippedPrecedence ==
    \A k \in DOMAIN wpc :
        (Classified(k) /\ ReachesDisc(k)) =>
            LET seq1 == chunk1[k].seq
                nfs == Occurrences(seq1, NON_FLIPPED_SEQ)
                fls == Occurrences(seq1, FLIPPED_SEQ)
                d == DiscStart(seq1)
            IN  /\ res[k] = Failure("DiscSeq") <=> (nfs = {} /\ fls = {})
                /\ res[k].kind = "ok" =>
                      /\ res[k].flip = (IF nfs # {} THEN "NonFlipped" ELSE "Flipped")
                      /\ d >= DISCRIMINATOR_OFFSET + BARCODE_LEN
                      /\ res[k].sample.barcode1
                           = Slice(seq1, d - DISCRIMINATOR_OFFSET - BARCODE_LEN,
                                   d - DISCRIMINATOR_OFFSET)
                /\ res[k] = Failure("DiscPos") =>
                      d # None /\ d < DISCRIMINATOR_OFFSET + BARCODE_LEN

(* C24 witness: a success with NonFlipped on a read 1 that holds the      *)
(* flipped motif before the non-flipped one.                              *)
C24_Witness ==
    \E k \in DOMAIN wpc :
        /\ Classified(k)
        /\ res[k].kind = "ok"
        /\ res[k].flip = "NonFlipped"
        /\ Occurrences(chunk1[k].seq, FLIPPED_SEQ) # {}
        /\ Min(Occurrences(chunk1[k].seq, FLIPPED_SEQ))
             < Min(Occurrences(chunk1[k].seq, NON_FLIPPED_SEQ))

(* C25: a pair that reaches the discriminator check with the              *)
(* discriminator at d fails with DiscPos iff                              *)
(* d < DISCRIMINATOR_OFFSET + BARCODE_LEN; otherwise barcode 1 is the     *)
(* BARCODE_LEN characters at d - DISCRIMINATOR_OFFSET - BARCODE_LEN and   *)
(* the pair fails with Barcode1 iff they are not in BARCODES_1.           *)
C25_DiscPosAndBarcode1 ==
    \A k \in DOMAIN wpc :
        (Classified(k) /\ ReachesDisc(k) /\ DiscStart(chunk1[k].seq) # None) =>
            LET seq1 == chunk1[k].seq
                d == DiscStart(seq1)
                lo == DISCRIMINATOR_OFFSET + BARCODE_LEN
            IN  /\ res[k] = Failure("DiscPos") <=> d < lo
                /\ d >= lo =>
                      LET b1 == Slice(seq1, d - lo, d - lo + BARCODE_LEN)
                      IN  /\ res[k] = Failure("Barcode1") <=> ~Contains(BARCODES_1, b1)
                          /\ res[k].kind = "ok" => res[k].sample.barcode1 = b1

(* C25 witness: a discriminator exactly at the least accepted offset,     *)
(* with a barcode 1 of BARCODES_1 at offset 0.                            *)
C25_Witness ==
    \E k \in DOMAIN wpc :
        /\ Classified(k)
        /\ DiscStart(chunk1[k].seq) = DISCRIMINATOR_OFFSET + BARCODE_LEN
        /\ res[k].kind = "ok"
        /\ res[k].sample.barcode1 = BC_CGATGT

(* C27: for a pair that passes the anchor position check, the anchor      *)
(* being at p >= BARCODE_LEN with p + BARCODE_LEN + RBS_LEN within read   *)
(* 2, the RBS slice and the barcode 2 slice lie within read 2 and the     *)
(* classification does not abort.                                         *)
C27_PositionCheckGuards ==
    \A k \in DOMAIN wpc :
        (/\ Classified(k)
         /\ PassesBaseCalls(k)
         /\ Len(chunk2[k].seq) >= CONSTANT_REGION_WINDOW[2]
         /\ AnchorsInWindow(chunk2[k].seq) # {}) =>
            LET seq2 == chunk2[k].seq
                p == Min(AnchorsInWindow(seq2))
            IN  (p >= BARCODE_LEN /\ p + BARCODE_LEN + RBS_LEN <= Len(seq2)) =>
                    /\ SliceOk(seq2, p + Len(CONSTANT_REGION),
                               p + Len(CONSTANT_REGION) + RBS_LEN)
                    /\ SliceOk(seq2, p - BARCODE_LEN, p)
                    /\ res[k].kind # "panic"

(* C26: the QC summary of a run is written under sample=<sample_name>,    *)
(* sample_name being the argument of the run.                             *)
C26_QcUnderSampleName ==
    qc # EmptyDir => DOMAIN qc = {sample_name}

(* closure invocations that have incremented total and have recorded no   *)
(* outcome: classify_pair is running or has panicked                      *)
Unrecorded == {k \in DOMAIN wpc : wpc[k] \in {"classify", "panicked"}}

(* C28: in every state of a run, also in the middle of the parallel phase *)
(* of a chunk, valid plus the seven failure counters is at most total and *)
(* the difference is the number of workers that have incremented total    *)
(* and have not recorded the outcome; no counter ever decreases.          *)
C28_CounterBound ==
    /\ [](/\ counters.valid + FailTotal(counters) <= counters.total
          /\ counters.total - (counters.valid + FailTotal(counters))
               = Cardinality(Unrecorded))
    /\ [][/\ counters'.total >= counters.total
          /\ counters'.valid >= counters.valid
          /\ \A r \in DOMAIN counters.fails :
                counters'.fails[r] >= counters.fails[r]]_vars

(* C28 witness: in the middle of a chunk, one worker has recorded its     *)
(* outcome and another has incremented total and is classifying.          *)
C28_Witness ==
    /\ pc = "par"
    /\ counters.total = 2
    /\ counters.valid + FailTotal(counters) = 1
    /\ \E k \in DOMAIN wpc : wpc[k] = "classify"
    /\ \E k \in DOMAIN wpc : wpc[k] = "done"

RECURSIVE FilesTotal(_)
(* sum of the unflipped and flipped values of the rows of the counts      *)
(* files of the set                                                       *)
FilesTotal(files) ==
    IF files = {} THEN 0
    ELSE LET f == CHOOSE x \in files : TRUE
         IN  RowsTotal(countsDir[f]) + FilesTotal(files \ {f})

(* C29: in a run on a fresh root that completes, the values of the merged *)
(* table and those of the partition files both add up to valid, the value *)
(* the QC summary reports, and the values of the partition files of each  *)
(* sample add up to the number of pairs classified to the sample.         *)
C29_CountsAgreeWithQc ==
    (pc = "done" /\ root0 = EmptyDir) =>
        /\ RowsTotal(merged) = counters.valid
        /\ FilesTotal(DOMAIN countsDir) = counters.valid
        /\ qc[QcSample][2] = <<"valid", FilesTotal(DOMAIN countsDir)>>
        /\ \A b1 \in Range(BARCODES_1), b2 \in Range(BARCODES_2) :
              FilesTotal(PartFiles(sample_name, <<b1, b2>>))
                = Cardinality({j \in 1..PairsPulled :
                      LET r == classify_pair(Config, file1[j], file2[j])
                      IN  r.kind = "ok" /\ r.sample = [barcode1 |-> b1, barcode2 |-> b2]})

(* C29 witness: a run of two valid pairs of two samples has completed.    *)
C29_Witness ==
    /\ pc = "done"
    /\ root0 = EmptyDir
    /\ counters.valid = 2
    /\ Cardinality(MergedPairs) = 2
    /\ FilesTotal(DOMAIN countsDir) = 2

(* C30: a run on a fresh root over two empty files does not abort and     *)
(* ends with a QC summary of nine zero values and no counts file.         *)
C30_EmptyInputCompletes ==
    (Len(file1) = 0 /\ Len(file2) = 0 /\ root0 = EmptyDir) =>
        /\ pc # "panicked"
        /\ pc = "done" =>
              /\ qc # EmptyDir
              /\ \A f \in DOMAIN qc : \A j \in DOMAIN qc[f] : qc[f][j][2] = 0
              /\ countsDir = EmptyDir

(* C31: the parallel phase of every chunk ends, for_each returning or     *)
(* resuming a panic, and when it ends no closure invocation is left in    *)
(* flight: every one that recorded a success has taken the outer entry    *)
(* and the inner entry, incremented the cell and released both entries.   *)
C31_NoDeadlock ==
    /\ (pc = "par") ~> (pc \in {"pull", "panicked"})
    /\ [][(pc = "par" /\ pc' # "par") =>
            /\ InFlight = {}
            /\ \A k \in DOMAIN wpc : res[k].kind = "ok" => wpc[k] = "done"]_vars

(* C31 witness: a closure invocation waits for the entry of its sample    *)
(* while another one of the same sample holds it.                         *)
C31_Witness ==
    /\ pc = "par"
    /\ \E k, w \in DOMAIN wpc :
          /\ k # w
          /\ wpc[k] = "outer"
          /\ wpc[w] \in {"inner", "cell"}
          /\ res[k].sample = res[w].sample

(* rows of the files of dir under the directory of sample and barcodes d *)
DirRows(dir, d) ==
    UNION {Range(dir[p]) : p \in {q \in DOMAIN dir : SubSeq(q, 1, 3) = d}}

(* the directories of the files of dir *)
Dirs(dir) == {SubSeq(p, 1, 3) : p \in DOMAIN dir}

(* C32: when a second run of process_fastq with the same arguments on the *)
(* root the first run left has ended, the root has the chunk files the    *)
(* first run left, with the same rows, the same QC values, and the same   *)
(* counts files with the same rows in each directory: no count doubles.   *)
C32_RerunIdempotent ==
    (pc \in {"done", "panicked"} /\ prev # <<>>) =>
        /\ DOMAIN parquet = DOMAIN prev[1].parquet
        /\ \A f \in DOMAIN parquet :
              /\ Len(parquet[f]) = Len(prev[1].parquet[f])
              /\ Range(parquet[f]) = Range(prev[1].parquet[f])
        /\ qc = prev[1].qc
        /\ DOMAIN countsDir = DOMAIN prev[1].counts
        /\ \A p \in DOMAIN countsDir : Len(countsDir[p]) = Len(prev[1].counts[p])
        /\ \A d \in Dirs(countsDir) : DirRows(countsDir, d) = DirRows(prev[1].counts, d)

(* C32 witness: the second run has completed over two chunk files, with   *)
(* two rows in one counts directory.                                      *)
C32_Witness ==
    /\ pc = "done"
    /\ prev # <<>>
    /\ i = 2
    /\ counters.valid = 2
    /\ \E d \in Dirs(countsDir) : Cardinality(DirRows(countsDir, d)) = 2

====
